---- MODULE Spec2Model ----
(***************************************************************************)
(* Board detection by gradient projection (webapp/backend/                 *)
(* board_detection.py): the line-set resolver (check_match, prune_lines,   *)
(* fill_missing_lines, get_chess_lines), the rough-crop locator            *)
(* (rough_crop_board) and the adaptive threshold search and cropper of     *)
(* detect_board.                                                           *)
(*                                                                         *)
(* The OpenCV / numpy image operations (Canny, findContours, Sobel, the    *)
(* Gaussian convolution) are library code: their results enter the model   *)
(* as inputs. A contour is represented by its bounding rectangle, a        *)
(* projection signal by the peak positions it yields at each threshold     *)
(* level, an image by the window [oy, ox, h, w] it occupies in the input   *)
(* pixel buffer.                                                           *)
(*                                                                         *)
(* Floating-point comparisons of the source are modelled by the exact      *)
(* rational comparison, cross-multiplied to integers: a median is carried  *)
(* doubled (m2 = 2 * median), 0.06 as 6/100, 0.08 as 8/100, 0.15 as        *)
(* 15/100, 0.05 as 5/100, 0.02 as 2/100, 1.5 as 3/2.                       *)
(***************************************************************************)
EXTENDS Integers, Sequences, FiniteSets

VARIABLES
    pc,         \* position of detect_board: "start", "contours", "rough", "working", "search", "refine", "post", "done", "raised"
    image,      \* the input image [buf, oy, ox, h, w]
    chan,       \* the input array's [ndim, ch]: dimensions and channels
    contours,   \* rough_crop_board's three sorted contour lists (its locals)
    rough,      \* rough_crop_board's return value [img, off, found, best]
    working,    \* detect_board: working_image, y_off, x_off
    peaks,      \* per threshold level 1..4: the skeleton peaks [x, y] of the two signals
    a,          \* detect_board: threshold level
    lines,      \* detect_board: [x |-> lines_x, y |-> lines_y]
    is_match,   \* detect_board: is_match
    evals,      \* history: the get_chess_lines calls made, in order
    levelres,   \* ghost: what get_chess_lines reports at each level of the signals
    result,     \* detect_board's return value [cropped, bbox, success]
    lib,        \* per pixel buffer: what the image library computes from its pixels
    calls,      \* number of detect_board invocations started
    first,      \* history, per pixel buffer: the result of the first invocation on it
    inter,      \* detect_board_with_intermediates' return value on the same input
    hpc,        \* position of the request handler
    handler,    \* the endpoint serving the request
    request,    \* the request: what the handler's checks find in it
    response,   \* the handler's response [status, detail]
    fen_calls,  \* history: the predict_fen calls made for the request
    sig_in,     \* history: the signal passed to skeletonize_1d
    sig,        \* the caller's signal array
    skel,       \* skeletonize_1d's return value
    lpc,        \* line resolver harness: "build" or "done"
    cand,       \* line resolver harness: raw candidate positions
    cdim,       \* line resolver harness: image dimension along the axis
    lres        \* line resolver harness: results of the resolver functions on cand

vars == <<pc, image, chan, contours, rough, working, peaks, a, lines, is_match, evals,
          levelres, result, lib, calls, first, inter, hpc, handler, request, response,
          fen_calls, sig_in, sig, skel, lpc, cand, cdim, lres>>

detectVars == <<pc, image, chan, contours, rough, working, peaks, a, lines, is_match,
                evals, levelres, result>>

callVars == <<lib, calls, first, inter>>

appVars == <<hpc, handler, request, response, fen_calls>>

skelVars == <<sig_in, sig, skel>>

lineVars == <<lpc, cand, cdim, lres>>

\* everything outside detect_board's frame
outerVars == <<callVars, appVars, skelVars, lineVars>>

(***************************************************************************)
(* Bounds of the model and constants of the program.                       *)
(***************************************************************************)
MaxPeaks == 7

MaxContours == 2

MaxStep == 60

Margin == 10

MinTol == 5

TolPct == 6

StepPct == 8

DoublePct == 15

MinRun == 5

NumLines == 7

TopContours == 20

MinAreaPct == 5

PaddingPct == 2

NumLevels == 5

(***************************************************************************)
(* Arithmetic helpers.                                                     *)
(***************************************************************************)
Abs(v) == IF v < 0 THEN -v ELSE v

Min(x, y) == IF x < y THEN x ELSE y

Max(x, y) == IF x > y THEN x ELSE y

SetMax(S) == CHOOSE x \in S : \A y \in S : y <= x

\* round(n / d) for n >= 0, d > 0, halves to the even neighbour (Python round)
RoundHalfEven(n, d) ==
    LET q == n \div d
        r == n % d
    IN  IF 2 * r < d THEN q
        ELSE IF 2 * r > d THEN q + 1
        ELSE IF q % 2 = 0 THEN q ELSE q + 1

\* np.diff
Diff(s) == [i \in 1..(Len(s) - 1) |-> s[i + 1] - s[i]]

\* s[lo:hi] for 0 <= lo
PySlice(s, lo, hi) == SubSeq(s, lo + 1, Min(hi, Len(s)))

RECURSIVE InsertSorted(_, _)
InsertSorted(s, v) ==
    IF s = <<>> THEN <<v>>
    ELSE IF v <= Head(s) THEN <<v>> \o s
    ELSE <<Head(s)>> \o InsertSorted(Tail(s), v)

RECURSIVE SortAsc(_)
SortAsc(s) ==
    IF s = <<>> THEN <<>>
    ELSE CHOOSE r \in {InsertSorted(t, Head(s)) : t \in {SortAsc(Tail(s))}} : TRUE

\* 2 * np.median(s), s non-empty
Median2(s) ==
    LET t == SortAsc(s)
        n == Len(s)
    IN  IF n % 2 = 1 THEN 2 * t[(n + 1) \div 2] ELSE t[n \div 2] + t[n \div 2 + 1]

IsAscending(s) == \A i \in 1..(Len(s) - 1) : s[i] < s[i + 1]

(***************************************************************************)
(* check_match, prune_lines, fill_missing_lines.  A value the source       *)
(* computes once and reads several times is bound as the element of a      *)
(* singleton set, so that it is computed once here too.                    *)
(***************************************************************************)
\* abs(line - x) < (max(5, x * 0.06) if x > 0 else 5)
WithinTol(line, x) ==
    \/ Abs(line - x) < MinTol
    \/ x > 0 /\ 100 * Abs(line - x) < TolPct * x

RECURSIVE check_match_loop(_, _, _, _)
check_match_loop(linediff, i, x, cnt) ==
    IF i > Len(linediff) THEN cnt >= MinRun
    ELSE IF WithinTol(linediff[i], x)
         THEN check_match_loop(linediff, i + 1, x, cnt + 1)
         ELSE check_match_loop(linediff, i + 1, linediff[i], 0)

check_match(lineset) ==
    IF Len(lineset) < NumLines THEN FALSE
    ELSE \E linediff \in {Diff(lineset)} : check_match_loop(linediff, 1, 0, 0)

MarginFilter(lineset, image_dim) ==
    SelectSeq(lineset, LAMBDA x : x > Margin /\ x < image_dim - Margin)

\* the loop of prune_lines; i and start_pos are 0-based as in the source
RECURSIVE prune_loop(_, _, _, _, _, _)
prune_loop(lineset, linediff, i, x, cnt, start_pos) ==
    IF i >= Len(linediff) THEN lineset
    ELSE IF WithinTol(linediff[i + 1], x)
         THEN IF cnt + 1 = MinRun
              THEN PySlice(lineset, start_pos, i + 2)
              ELSE prune_loop(lineset, linediff, i + 1, x, cnt + 1, start_pos)
         ELSE prune_loop(lineset, linediff, i + 1, linediff[i + 1], 0, i)

prune_lines(lineset, image_dim) ==
    LET Pruned(kept) ==
            IF Len(kept) < NumLines THEN kept
            ELSE CHOOSE r \in {prune_loop(kept, linediff, 0, 0, 0, 0) :
                                  linediff \in {Diff(kept)}} : TRUE
    IN  CHOOSE r \in {Pruned(kept) : kept \in {MarginFilter(lineset, image_dim)}} : TRUE

\* a window that interpolates from the position after the double gap
\* (seg, med2 and m2 are bound as elements of singletons, so each is computed once)
FillWindowAfterGap(lineset, linediff, start) ==
    LET Window(seg, m2) ==
            LET IsStep(d) == 100 * Abs(2 * d - m2) < StepPct * m2
                IsDouble(d) == 100 * Abs(2 * d - 2 * m2) < DoublePct * m2
                consistent == Cardinality({j \in 1..Len(seg) : IsStep(seg[j])})
                doubles == {j \in 1..Len(seg) : ~IsStep(seg[j]) /\ IsDouble(seg[j])}
                double_idx == IF doubles = {} THEN -1 ELSE SetMax(doubles) - 1
                insert_pos == start + double_idx + 1
                missing_val == RoundHalfEven(2 * lineset[insert_pos + 1] + m2, 2)
            IN  IF consistent >= Len(seg) - 1 /\ double_idx >= 0
                THEN [found |-> TRUE,
                      new_lines |-> SubSeq(lineset, 1, insert_pos) \o <<missing_val>>
                                    \o SubSeq(lineset, insert_pos + 1, Len(lineset))]
                ELSE [found |-> FALSE, new_lines |-> lineset]
        Steps(seg, med2) == Median2(SelectSeq(seg, LAMBDA d : 4 * d < 3 * med2))
        OfSegment(seg) ==
            CHOOSE w \in {Window(seg, m2) :
                             m2 \in {Steps(seg, med2) : med2 \in {Median2(seg)}}} : TRUE
    IN  CHOOSE w \in {OfSegment(seg) : seg \in {PySlice(linediff, start, start + 5)}} : TRUE

\* one window of fill_missing_lines: [found, new_lines]
\* (seg, med2 and m2 are bound as elements of singletons, so each is computed once)
FillWindow(lineset, linediff, start) ==
    LET Window(seg, m2) ==
            LET IsStep(d) == 100 * Abs(2 * d - m2) < StepPct * m2
                IsDouble(d) == 100 * Abs(2 * d - 2 * m2) < DoublePct * m2
                consistent == Cardinality({j \in 1..Len(seg) : IsStep(seg[j])})
                doubles == {j \in 1..Len(seg) : ~IsStep(seg[j]) /\ IsDouble(seg[j])}
                double_idx == IF doubles = {} THEN -1 ELSE SetMax(doubles) - 1
                insert_pos == start + double_idx + 1
                missing_val == RoundHalfEven(2 * lineset[insert_pos] + m2, 2)
            IN  IF consistent >= Len(seg) - 1 /\ double_idx >= 0
                THEN [found |-> TRUE,
                      new_lines |-> SubSeq(lineset, 1, insert_pos) \o <<missing_val>>
                                    \o SubSeq(lineset, insert_pos + 1, Len(lineset))]
                ELSE [found |-> FALSE, new_lines |-> lineset]
        Steps(seg, med2) == Median2(SelectSeq(seg, LAMBDA d : 4 * d < 3 * med2))
        OfSegment(seg) ==
            CHOOSE w \in {Window(seg, m2) :
                             m2 \in {Steps(seg, med2) : med2 \in {Median2(seg)}}} : TRUE
    IN  CHOOSE w \in {OfSegment(seg) : seg \in {PySlice(linediff, start, start + 5)}} : TRUE

\* a loop that goes on to later windows after an insertion
RECURSIVE fill_loop_no_return(_, _, _)
fill_loop_no_return(lineset, linediff, start) ==
    IF start >= Len(linediff) \/ start + 4 > Len(linediff) THEN lineset
    ELSE LET win == FillWindow(lineset, linediff, start)
         IN  IF win.found
             THEN fill_loop_no_return(win.new_lines, Diff(win.new_lines), start + 2)
             ELSE fill_loop_no_return(lineset, linediff, start + 1)

RECURSIVE fill_loop(_, _, _)
fill_loop(lineset, linediff, start) ==
    IF start >= Len(linediff) \/ start + 4 > Len(linediff) THEN lineset
    ELSE LET win == FillWindow(lineset, linediff, start)
         IN  IF win.found THEN win.new_lines
             ELSE fill_loop(lineset, linediff, start + 1)

fill_missing_lines(lineset, image_dim) ==
    LET Filled(kept) ==
            IF Len(kept) < NumLines - 1 THEN kept
            ELSE CHOOSE r \in {fill_loop(kept, linediff, 0) :
                                  linediff \in {Diff(kept)}} : TRUE
    IN  CHOOSE r \in {Filled(kept) : kept \in {MarginFilter(lineset, image_dim)}} : TRUE

(***************************************************************************)
(* get_chess_lines, from the peaks of the two skeletonized signals.        *)
(***************************************************************************)
\* an axis of get_chess_lines that is repaired whether or not it matched
ResolveAxisAlwaysRepairs(raw, image_dim) ==
    CHOOSE r \in {prune_lines(filled, image_dim) :
                     filled \in {fill_missing_lines(raw, image_dim)}} : TRUE

\* one axis of get_chess_lines: prune, and repair when the pruned set is no match
ResolveAxis(raw, image_dim) ==
    LET Repaired(pruned) ==
            IF Len(pruned) # NumLines \/ ~check_match(pruned)
            THEN CHOOSE r \in {prune_lines(filled, image_dim) :
                                  filled \in {fill_missing_lines(raw, image_dim)}} : TRUE
            ELSE pruned
    IN  CHOOSE r \in {Repaired(pruned) : pruned \in {prune_lines(raw, image_dim)}} : TRUE

\* get_chess_lines that forgets the y axis in is_match
get_chess_lines_x_only(raw_x, raw_y, shape) ==
    LET Result(lines_x, lines_y) ==
            [lines_x |-> lines_x,
             lines_y |-> lines_y,
             is_match |-> Len(lines_x) = NumLines /\ check_match(lines_x)]
    IN  CHOOSE r \in {Result(lines_x, lines_y) :
                         lines_x \in {ResolveAxis(raw_x, shape.w)},
                         lines_y \in {ResolveAxis(raw_y, shape.h)}} : TRUE

get_chess_lines(raw_x, raw_y, shape) ==
    LET Result(lines_x, lines_y) ==
            [lines_x |-> lines_x,
             lines_y |-> lines_y,
             is_match |-> /\ Len(lines_x) = NumLines
                          /\ Len(lines_y) = NumLines
                          /\ check_match(lines_x)
                          /\ check_match(lines_y)]
    IN  CHOOSE r \in {Result(lines_x, lines_y) :
                         lines_x \in {ResolveAxis(raw_x, shape.w)},
                         lines_y \in {ResolveAxis(raw_y, shape.h)}} : TRUE

(***************************************************************************)
(* Images and rough_crop_board.                                            *)
(***************************************************************************)
\* image[y0:y1, x0:x1] for 0 <= y0, 0 <= x0: basic slicing, a view of the same
\* pixel buffer
CropImage(img, y0, y1, x0, x1) ==
    LET ya == Min(y0, img.h)
        yb == Max(ya, Min(y1, img.h))
        xa == Min(x0, img.w)
        xb == Max(xa, Min(x1, img.w))
    IN  [buf |-> img.buf, oy |-> img.oy + ya, ox |-> img.ox + xa,
         h |-> yb - ya, w |-> xb - xa]

RECURSIVE GCD(_, _)
GCD(m, n) ==
    IF n = 0 THEN m ELSE CHOOSE g \in {GCD(n, r) : r \in {m % n}} : TRUE

\* the fraction n / d (d > 0) in lowest terms; n, d and their divisor are
\* bound as elements of singletons, so each is computed once
Frac(n, d) ==
    LET Lowest(nv, dv) ==
            CHOOSE f \in {[n |-> nv \div g, d |-> dv \div g] : g \in {GCD(Abs(nv), dv)}} : TRUE
    IN  CHOOSE f \in {Lowest(nv, dv) : nv \in {n}, dv \in {d}} : TRUE

FracSub(p, q) == Frac(p.n * q.d - q.n * p.d, p.d * q.d)

FracLess(p, q) == p.n * q.d < q.n * p.d

\* (1 - bw/bh)^2 - 0.5 * (bw*bh / image_area), as an exact fraction
ScoreBoardCandidate(bw, bh, image_area) ==
    LET aspect_penalty == IF bh > 0 THEN Frac((bh - bw) * (bh - bw), bh * bh)
                          ELSE Frac(1, 1)
        half_area_frac == Frac(bw * bh, 2 * image_area)
    IN  FracSub(aspect_penalty, half_area_frac)

\* not skipped by either `continue` of _find_best_board_contour
Eligible(rect, image_area) ==
    /\ ~(100 * rect.bw * rect.bh < MinAreaPct * image_area)
    /\ ~(2 * rect.bw < rect.bh \/ rect.bw > 2 * rect.bh)

\* the loop of _find_best_board_contour over cnts; best is <<>> (None) or <<rect>>
RECURSIVE FindBestLoop(_, _, _, _)
FindBestLoop(cnts, i, image_area, best) ==
    IF i > Len(cnts) THEN best
    ELSE LET rect == cnts[i]
             score == ScoreBoardCandidate(rect.bw, rect.bh, image_area)
         IN  IF ~Eligible(rect, image_area)
             THEN FindBestLoop(cnts, i + 1, image_area, best)
             ELSE IF best = <<>>
                     \/ FracLess(score, ScoreBoardCandidate(best[1].bw, best[1].bh, image_area))
                  THEN FindBestLoop(cnts, i + 1, image_area, <<rect>>)
                  ELSE FindBestLoop(cnts, i + 1, image_area, best)

FindBestBoardContour(cnts, image_area) ==
    FindBestLoop(PySlice(cnts, 0, TopContours), 1, image_area, <<>>)

\* a selection that keeps the first strategy's candidate
MinCandidateFirst(candidates, i, image_area, best) == best

\* min(candidates, key = score): the first candidate of minimal score
RECURSIVE MinCandidate(_, _, _, _)
MinCandidate(candidates, i, image_area, best) ==
    IF i > Len(candidates) THEN best
    ELSE IF FracLess(ScoreBoardCandidate(candidates[i].bw, candidates[i].bh, image_area),
                     ScoreBoardCandidate(best.bw, best.bh, image_area))
         THEN MinCandidate(candidates, i + 1, image_area, candidates[i])
         ELSE MinCandidate(candidates, i + 1, image_area, best)

NoRect == [bx |-> 0, by |-> 0, bw |-> 0, bh |-> 0]

\* cnt = [ext, tree, raw]: the three sorted contour lists, each contour as its
\* bounding rectangle; candidates and best are bound as elements of
\* singletons, so each is computed once
rough_crop_board(img, cnt) ==
    LET image_area == img.h * img.w
        PaddedCrop(best) ==
            LET pad_x == (PaddingPct * best.bw) \div 100
                pad_y == (PaddingPct * best.bh) \div 100
                y0 == Max(0, best.by - pad_y)
                y1 == Min(img.h, best.by + best.bh + pad_y)
                x0 == Max(0, best.bx - pad_x)
                x1 == Min(img.w, best.bx + best.bw + pad_x)
            IN  [img |-> CropImage(img, y0, y1, x0, x1),
                 off |-> [y |-> y0, x |-> x0], found |-> TRUE, best |-> best]
        CropOf(candidates) ==
            IF candidates = <<>>
            THEN [img |-> img, off |-> [y |-> 0, x |-> 0], found |-> FALSE, best |-> NoRect]
            ELSE CHOOSE r \in {PaddedCrop(best) :
                                  best \in {MinCandidate(candidates, 2, image_area,
                                                         candidates[1])}} : TRUE
    IN  CHOOSE r \in {CropOf(candidates) :
                         candidates \in {FindBestBoardContour(cnt.ext, image_area)
                                         \o FindBestBoardContour(cnt.tree, image_area)
                                         \o FindBestBoardContour(cnt.raw, image_area)}} : TRUE

(***************************************************************************)
(* Inputs of detect_board: the image, the contours the edge maps yield,    *)
(* the peaks the projection signals yield at each threshold level.         *)
(***************************************************************************)
Images == {[buf |-> "input", oy |-> 0, ox |-> 0, h |-> 200, w |-> 240]}

\* bounding rectangles of contours: the whole frame, a centred square, a
\* rectangle of exactly 5% of the frame, a rectangle below 5% of the frame
RectFull == [bx |-> 0, by |-> 0, bw |-> 240, bh |-> 200]

RectSquare == [bx |-> 60, by |-> 40, bw |-> 100, bh |-> 100]

RectEdge == [bx |-> 10, by |-> 10, bw |-> 48, bh |-> 50]

RectTiny == [bx |-> 5, by |-> 5, bw |-> 40, bh |-> 40]

\* a thin strip (aspect ratio 12): a contour that is never eligible
RectStrip == [bx |-> 0, by |-> 0, bw |-> 240, bh |-> 20]

RectCatalogue == {RectFull, RectSquare, RectEdge, RectTiny}

\* a sorted contour list: k strips of large contour area, then the given ones
StripPrefix(k, rest) == [i \in 1..k |-> RectStrip] \o rest

PrefixCounts == {0, TopContours - 1, TopContours}

RectLists(n) == [1..n -> RectCatalogue]

\* the elements of t at the indices in keep, in order
RECURSIVE Pick(_, _, _)
Pick(t, keep, i) ==
    IF i > Len(t) THEN <<>>
    ELSE (IF i \in keep THEN <<t[i]>> ELSE <<>>) \o Pick(t, keep, i + 1)

\* the contours of the closed edge map: RETR_TREE yields all of them and
\* RETR_EXTERNAL the outermost of them, the largest included
ClosedLists(k) ==
    UNION {{[tree |-> StripPrefix(k, t), ext |-> StripPrefix(k, Pick(t, keep, 1)),
             n |-> Len(t)] :
               keep \in {K \in SUBSET (1..Len(t)) : k > 0 \/ Len(t) = 0 \/ 1 \in K}} :
           t \in UNION {RectLists(n) : n \in 0..MaxContours}}

\* at most MaxContours catalogue contours over the closed and the raw edge
\* map, and the lists of one of the two maps led by strips
ContourInputs ==
    UNION {UNION {{[ext |-> c.ext, tree |-> c.tree, raw |-> StripPrefix(k[2], r)] :
                      r \in UNION {RectLists(n) : n \in 0..(MaxContours - c.n)}} :
                  c \in ClosedLists(k[1])} :
           k \in {kk \in PrefixCounts \X PrefixCounts : kk[1] = 0 \/ kk[2] = 0}}

\* peak lists of a signal of length dim: seven lines whose mean spacing is no
\* integer and whose outer lines fall inside the image
PeaksGrid(dim) ==
    LET s == dim \div 8 - 1
    IN  [k \in 1..7 |-> s + 2 + (k - 1) * s + Min(k - 1, 4)]

\* seven lines whose outer lines fall outside the image
PeaksTight(dim) ==
    LET s == (dim - 26) \div 6
    IN  [k \in 1..7 |-> 11 + (k - 1) * s + Min(k - 1, 4)]

\* an evenly spaced grid that lacks its fifth line
PeaksGap(dim) == [k \in 1..6 |-> (IF k < 5 THEN k ELSE k + 1) * (dim \div 8)]

\* seven lines whose mean spacing ends in one half, between two peaks in the margins
PeaksJunk(dim) ==
    LET s == dim \div 8 - 1
    IN  <<4>> \o [k \in 1..7 |-> s + 2 + (k - 1) * s + Min(k - 1, 3)] \o <<dim - 5>>

\* no grid
PeaksNoise(dim) == <<3, dim \div 5, dim \div 5 + 7, dim - 2>>

\* the peaks the two signals of an image of this shape can yield at one level
LevelCatalogue(shape) ==
    <<[x |-> PeaksGrid(shape.w), y |-> PeaksGrid(shape.h)],
      [x |-> PeaksTight(shape.w), y |-> PeaksJunk(shape.h)],
      [x |-> PeaksGap(shape.w), y |-> PeaksGrid(shape.h)],
      [x |-> PeaksGrid(shape.w), y |-> PeaksNoise(shape.h)],
      [x |-> PeaksNoise(shape.w), y |-> PeaksTight(shape.h)],
      [x |-> PeaksNoise(shape.w), y |-> PeaksNoise(shape.h)],
      [x |-> <<>>, y |-> <<>>]>>

LevelKinds == 1..6

LevelInputs(shape) == {LevelCatalogue(shape)[k] : k \in LevelKinds}

Levels == 1..(NumLevels - 1)

NoContours == [ext |-> <<>>, tree |-> <<>>, raw |-> <<>>]

NoImage == [buf |-> "none", oy |-> 0, ox |-> 0, h |-> 0, w |-> 0]

NoRough == [img |-> NoImage, off |-> [y |-> 0, x |-> 0], found |-> FALSE, best |-> NoRect]

NoWorking == [img |-> NoImage, y_off |-> 0, x_off |-> 0]

NoPeaks == [l \in Levels |-> [x |-> <<>>, y |-> <<>>]]

NoLines == [x |-> <<>>, y |-> <<>>]

NoLevelRes == [l \in Levels |-> [lines_x |-> <<>>, lines_y |-> <<>>, is_match |-> FALSE]]

NoResult == [cropped |-> NoImage, bbox |-> <<0, 0, 0, 0>>, success |-> FALSE]

NoChan == [ndim |-> 0, ch |-> 0]

\* a decoded RGB array
RGB == [ndim |-> 3, ch |-> 3]

BufNames == {"input", "other"}

\* nothing is known of the buffer's pixels: the library may compute anything
UnknownLib == [known |-> FALSE, contours |-> NoContours, levels |-> [l \in Levels |-> 1]]

NoLib == [b \in BufNames |-> UnknownLib]

NoFirst == [b \in BufNames |-> NoResult]

NoIntermediates ==
    [original |-> NoImage, working_image |-> NoImage, crop_bbox |-> <<0, 0, 0, 0>>,
     crop_found |-> FALSE, lines_x |-> <<>>, lines_y |-> <<>>,
     all_x |-> <<>>, all_y |-> <<>>]

NoInter == [cropped |-> NoImage, bbox |-> <<0, 0, 0, 0>>, success |-> FALSE,
            intermediates |-> NoIntermediates]

\* skeletonize_1d has not returned
NoSkel == <<-1>>

NoRequest == [model_loaded |-> FALSE, has_image |-> FALSE, b64_ok |-> FALSE,
              too_large |-> FALSE, allowed |-> FALSE, decodable |-> FALSE]

NoResponse == [status |-> 0, detail |-> ""]

NoLres == [cm |-> FALSE, pruned |-> <<>>, filled |-> <<>>, resolved |-> <<>>]

DetectIdle ==
    /\ pc = "idle"
    /\ image = NoImage
    /\ chan = NoChan
    /\ contours = NoContours
    /\ rough = NoRough
    /\ working = NoWorking
    /\ peaks = NoPeaks
    /\ a = 0
    /\ lines = NoLines
    /\ is_match = FALSE
    /\ evals = <<>>
    /\ levelres = NoLevelRes
    /\ result = NoResult

LinesIdle ==
    /\ lpc = "idle"
    /\ cand = <<>>
    /\ cdim = 0
    /\ lres = NoLres

CallIdle ==
    /\ lib = NoLib
    /\ calls = 0
    /\ first = NoFirst
    /\ inter = NoInter

AppIdle ==
    /\ hpc = "idle"
    /\ handler = "none"
    /\ request = NoRequest
    /\ response = NoResponse
    /\ fen_calls = <<>>

SkelIdle ==
    /\ sig_in = <<>>
    /\ sig = <<>>
    /\ skel = NoSkel

\* the sorted contour lists the library finds in the image's edge maps
ContoursOf(img) ==
    IF lib[img.buf].known THEN {lib[img.buf].contours} ELSE ContourInputs

\* the peaks the image's projection signals yield at the four levels
PeaksOf(img) ==
    IF lib[img.buf].known
    THEN {[l \in Levels |-> LevelCatalogue(img)[lib[img.buf].levels[l]]]}
    ELSE [Levels -> LevelInputs(img)]

(***************************************************************************)
(* detect_board.                                                           *)
(***************************************************************************)
Init ==
    /\ pc = "start"
    /\ image \in Images
    /\ chan = RGB
    /\ contours = NoContours
    /\ rough = NoRough
    /\ working = NoWorking
    /\ peaks = NoPeaks
    /\ a = 0
    /\ lines = NoLines
    /\ is_match = FALSE
    /\ evals = <<>>
    /\ levelres = NoLevelRes
    /\ result = NoResult
    /\ lib = NoLib
    /\ calls = 1
    /\ first = NoFirst
    /\ inter = NoInter
    /\ AppIdle
    /\ SkelIdle
    /\ LinesIdle

\* image[:, :, :3] of a 4-channel array: a view without the alpha channel
DropAlpha(c) == IF c.ndim = 3 /\ c.ch = 4 THEN [ndim |-> 3, ch |-> 3] ELSE c

\* cv2.cvtColor(_, COLOR_RGB2GRAY) accepts 3 or 4 channels
CvtColorAccepts(c) == c.ndim = 3 /\ c.ch \in {3, 4}

\* the alpha channel is dropped; rough_crop_board up to the sorted contour
\* lists (grayscale, edge maps and findContours)
FindContours ==
    /\ pc = "start"
    /\ chan' = DropAlpha(chan)
    /\ chan'.ndim = 3 => CvtColorAccepts(chan')
    /\ contours' \in ContoursOf(image)
    /\ pc' = "contours"
    /\ UNCHANGED <<image, rough, working, peaks, a, lines, is_match, evals, levelres, result>>
    /\ UNCHANGED outerVars

\* rough_crop_board from the candidate selection to its return statement
RoughCrop ==
    /\ pc = "contours"
    /\ rough' = rough_crop_board(image, contours)
    /\ pc' = "rough"
    /\ UNCHANGED <<image, contours, working, peaks, a, lines, is_match, evals, levelres, result>>
    /\ UNCHANGED <<chan, outerVars>>

\* detect_board: the return of rough_crop_board and the working image
WorkingImage ==
    /\ pc = "rough"
    /\ working' = IF rough.found
                  THEN [img |-> rough.img, y_off |-> rough.off.y, x_off |-> rough.off.x]
                  ELSE [img |-> image, y_off |-> 0, x_off |-> 0]
    /\ contours' = NoContours
    /\ pc' = "working"
    /\ UNCHANGED <<image, rough, peaks, a, lines, is_match, evals, levelres, result>>
    /\ UNCHANGED <<chan, outerVars>>

\* a threshold level kept from one invocation to the next
ProjectKeepsLevel ==
    /\ pc = "working"
    /\ CvtColorAccepts(chan)
    /\ peaks' \in PeaksOf(working.img)
    /\ levelres' = [l \in Levels |->
                       get_chess_lines(peaks'[l].x, peaks'[l].y, working.img)]
    /\ a' = IF a = 0 THEN 1 ELSE a
    /\ lines' = NoLines
    /\ is_match' = FALSE
    /\ pc' = "search"
    /\ UNCHANGED <<image, contours, rough, working, evals, result>>
    /\ UNCHANGED <<chan, outerVars>>

\* detect_board from the grayscale conversion to the start of the threshold
\* loop: the projection signals (as the peaks they yield at each level), a = 1
Project ==
    /\ pc = "working"
    /\ CvtColorAccepts(chan)
    /\ peaks' \in PeaksOf(working.img)
    /\ levelres' = [l \in Levels |->
                       get_chess_lines(peaks'[l].x, peaks'[l].y, working.img)]
    /\ a' = 1
    /\ lines' = NoLines
    /\ is_match' = FALSE
    /\ pc' = "search"
    /\ UNCHANGED <<image, contours, rough, working, evals, result>>
    /\ UNCHANGED <<chan, outerVars>>

\* the threshold loop written `while a < 4`
EvaluateThreeLevels ==
    /\ pc = "search"
    /\ a < NumLevels - 1
    /\ \E r \in {get_chess_lines(peaks[a].x, peaks[a].y, working.img)} :
           /\ lines' = [x |-> r.lines_x, y |-> r.lines_y]
           /\ is_match' = r.is_match
           /\ evals' = Append(evals, [level |-> a, kind |-> "base", match |-> r.is_match])
           /\ IF r.is_match
              THEN /\ a' = a
                   /\ pc' = "refine"
              ELSE /\ a' = a + 1
                   /\ pc' = IF a + 1 < NumLevels - 1 THEN "search" ELSE "post"
    /\ UNCHANGED <<image, contours, rough, working, peaks, levelres, result>>
    /\ UNCHANGED <<chan, outerVars>>

\* one iteration of the threshold loop, up to the refinement
Evaluate ==
    /\ pc = "search"
    /\ a < NumLevels
    /\ \E r \in {get_chess_lines(peaks[a].x, peaks[a].y, working.img)} :
           /\ lines' = [x |-> r.lines_x, y |-> r.lines_y]
           /\ is_match' = r.is_match
           /\ evals' = Append(evals, [level |-> a, kind |-> "base", match |-> r.is_match])
           /\ IF r.is_match
              THEN /\ a' = a
                   /\ pc' = IF a < NumLevels - 1 THEN "refine" ELSE "post"
              ELSE /\ a' = a + 1
                   /\ pc' = IF a + 1 < NumLevels THEN "search" ELSE "post"
    /\ UNCHANGED <<image, contours, rough, working, peaks, levelres, result>>
    /\ UNCHANGED <<chan, outerVars>>

\* a refinement that replaces the x lines only
RefineOnlyX ==
    /\ pc = "refine"
    /\ \E r \in {get_chess_lines(peaks[a + 1].x, peaks[a + 1].y, working.img)} :
           /\ lines' = IF r.is_match THEN [x |-> r.lines_x, y |-> lines.y] ELSE lines
           /\ evals' = Append(evals, [level |-> a + 1, kind |-> "refine", match |-> r.is_match])
    /\ pc' = "post"
    /\ UNCHANGED <<image, contours, rough, working, peaks, a, is_match, levelres, result>>
    /\ UNCHANGED <<chan, outerVars>>

\* a refinement without the break: the loop goes on at level a + 1
RefineNoBreak ==
    /\ pc = "refine"
    /\ \E r \in {get_chess_lines(peaks[a + 1].x, peaks[a + 1].y, working.img)} :
           /\ lines' = IF r.is_match THEN [x |-> r.lines_x, y |-> r.lines_y] ELSE lines
           /\ evals' = Append(evals, [level |-> a + 1, kind |-> "refine", match |-> r.is_match])
    /\ a' = a + 1
    /\ pc' = "search"
    /\ UNCHANGED <<image, contours, rough, working, peaks, is_match, levelres, result>>
    /\ UNCHANGED <<chan, outerVars>>

\* a refinement that takes the lines of level a + 1 whether or not they match
RefineUnconditional ==
    /\ pc = "refine"
    /\ \E r \in {get_chess_lines(peaks[a + 1].x, peaks[a + 1].y, working.img)} :
           /\ lines' = [x |-> r.lines_x, y |-> r.lines_y]
           /\ evals' = Append(evals, [level |-> a + 1, kind |-> "refine", match |-> r.is_match])
    /\ pc' = "post"
    /\ UNCHANGED <<image, contours, rough, working, peaks, a, is_match, levelres, result>>
    /\ UNCHANGED <<chan, outerVars>>

\* the refinement: level a + 1, then break
Refine ==
    /\ pc = "refine"
    /\ \E r \in {get_chess_lines(peaks[a + 1].x, peaks[a + 1].y, working.img)} :
           /\ lines' = IF r.is_match THEN [x |-> r.lines_x, y |-> r.lines_y] ELSE lines
           /\ evals' = Append(evals, [level |-> a + 1, kind |-> "refine", match |-> r.is_match])
    /\ pc' = "post"
    /\ UNCHANGED <<image, contours, rough, working, peaks, a, is_match, levelres, result>>
    /\ UNCHANGED <<chan, outerVars>>

\* a failure return whose box lacks the rough-crop offset
FailNoOffset ==
    /\ pc = "post"
    /\ ~is_match
    /\ result' = [cropped |-> working.img,
                  bbox |-> <<0, working.img.h, 0, working.img.w>>,
                  success |-> FALSE]
    /\ pc' = "done"
    /\ UNCHANGED <<image, contours, rough, working, peaks, a, lines, is_match, evals, levelres>>
    /\ UNCHANGED <<chan, outerVars>>

\* the failure return
Fail ==
    /\ pc = "post"
    /\ ~is_match
    /\ result' = [cropped |-> working.img,
                  bbox |-> <<working.y_off, working.img.h + working.y_off,
                             working.x_off, working.img.w + working.x_off>>,
                  success |-> FALSE]
    /\ pc' = "done"
    /\ UNCHANGED <<image, contours, rough, working, peaks, a, lines, is_match, evals, levelres>>
    /\ UNCHANGED <<chan, outerVars>>

\* a step truncated instead of rounded
StepOfTruncated(l) == (l[Len(l)] - l[1]) \div (Len(l) - 1)

\* int(round(np.mean(np.diff(l)))) of a non-empty ascending list
StepOf(l) == RoundHalfEven(l[Len(l)] - l[1], Len(l) - 1)

\* a crop interval that is not clamped to the working image
CropIntervalNoClamp(l, dim) ==
    LET step == StepOf(l)
    IN  [lo |-> l[1] - step, hi |-> l[Len(l)] + step]

\* the crop interval of one axis: [max(0, all[0]), min(dim, all[-1])]
CropInterval(l, dim) ==
    LET step == StepOf(l)
        all == <<l[1] - step>> \o l \o <<l[Len(l)] + step>>
    IN  [lo |-> Max(0, all[1]), hi |-> Min(dim, all[Len(all)])]

\* the success return
Crop ==
    /\ pc = "post"
    /\ is_match
    /\ \E ix \in {CropInterval(lines.x, working.img.w)},
          iy \in {CropInterval(lines.y, working.img.h)} :
           result' = [cropped |-> CropImage(working.img, iy.lo, iy.hi, ix.lo, ix.hi),
                      bbox |-> <<iy.lo + working.y_off, iy.hi + working.y_off,
                                 ix.lo + working.x_off, ix.hi + working.x_off>>,
                      success |-> TRUE]
    /\ pc' = "done"
    /\ UNCHANGED <<image, contours, rough, working, peaks, a, lines, is_match, evals, levelres>>
    /\ UNCHANGED <<chan, outerVars>>

Next ==
    \/ FindContours
    \/ RoughCrop
    \/ WorkingImage
    \/ Project
    \/ Evaluate
    \/ Refine
    \/ Fail
    \/ Crop

Spec == Init /\ [][Next]_vars

(***************************************************************************)
(* The line-set resolver on its own: a raw candidate list is built one     *)
(* peak at a time, then the resolver functions are applied to it.          *)
(***************************************************************************)
PeakStarts == {11}

PeakDiffs == {46, 50, 54, 100, 106}

PeakTails == {6, 11}

LInit ==
    /\ DetectIdle
    /\ CallIdle
    /\ AppIdle
    /\ SkelIdle
    /\ lpc = "build"
    /\ cand \in {<<s>> : s \in PeakStarts}
    /\ cdim = 0
    /\ lres = NoLres

AddPeak ==
    /\ lpc = "build"
    /\ Len(cand) < MaxPeaks
    /\ \E d \in PeakDiffs : cand' = Append(cand, cand[Len(cand)] + d)
    /\ UNCHANGED <<lpc, cdim, lres>>
    /\ UNCHANGED <<detectVars, callVars, appVars, skelVars>>

ResolveLines ==
    /\ lpc = "build"
    /\ \E t \in PeakTails : cdim' = cand[Len(cand)] + t
    /\ lres' = [cm |-> check_match(cand),
                pruned |-> prune_lines(cand, cdim'),
                filled |-> fill_missing_lines(cand, cdim'),
                resolved |-> ResolveAxis(cand, cdim')]
    /\ lpc' = "done"
    /\ UNCHANGED cand
    /\ UNCHANGED <<detectVars, callVars, appVars, skelVars>>

LNext ==
    \/ AddPeak
    \/ ResolveLines

SpecLines == LInit /\ [][LNext]_vars

(***************************************************************************)
(* Properties of detect_board.                                             *)
(***************************************************************************)
Searching == pc \in {"search", "refine", "post", "done"}

\* what get_chess_lines reports at each threshold level of the current signals
LevelResults == levelres

MatchingIn(R) == {l \in Levels : R[l].is_match}

FirstIn(M) == CHOOSE l \in M : \A m \in M : l <= m

LinesIn(R, l) == [x |-> R[l].lines_x, y |-> R[l].lines_y]

BaseEvals == {i \in DOMAIN evals : evals[i].kind = "base"}

RefineEvals == {i \in DOMAIN evals : evals[i].kind = "refine"}

\* the image detect_board works on and its offset, from rough_crop_board's result
ExpectedWorking == IF rough.found THEN rough.img ELSE image

ExpectedOffset == IF rough.found THEN rough.off ELSE [y |-> 0, x |-> 0]

\* C1: when no threshold level 1..4 matches on both axes, detect_board returns
\* success = false, the working image (the rough crop if one was found, else
\* the input) uncropped, and the bounding box (y_off, y_off + h, x_off, x_off + w).
C1_FallbackContract ==
    (pc = "done" /\ MatchingIn(LevelResults) = {}) =>
        /\ result.success = FALSE
        /\ result.cropped = ExpectedWorking
        /\ result.bbox = <<ExpectedOffset.y, ExpectedOffset.y + ExpectedWorking.h,
                           ExpectedOffset.x, ExpectedOffset.x + ExpectedWorking.w>>

C1_Witness ==
    /\ pc = "done"
    /\ MatchingIn(LevelResults) = {}
    /\ rough.found
    /\ rough.off.y > 0
    /\ rough.off.x > 0
    /\ result.cropped # image

\* C2: detect_board succeeds iff some level 1..4 matches on both axes; the base
\* levels evaluated are 1, 2, ... in order up to the lowest matching level and
\* none above it.
C2_FirstMatchStops ==
    Searching =>
        LET M == MatchingIn(LevelResults)
        IN  /\ pc = "done" => (result.success <=> M # {})
            /\ \A i \in BaseEvals :
                  /\ evals[i].level = Cardinality({j \in BaseEvals : j <= i})
                  /\ evals[i].match = (evals[i].level \in M)
                  /\ \A l \in M : evals[i].level <= l
            /\ (pc \in {"post", "done"} /\ M # {}) =>
                  /\ a = FirstIn(M)
                  /\ Cardinality(BaseEvals) = FirstIn(M)
            /\ (pc \in {"post", "done"} /\ M = {}) =>
                  Cardinality(BaseEvals) = NumLevels - 1

C2_Witness ==
    /\ pc = "done"
    /\ result.success
    /\ LET M == MatchingIn(LevelResults)
       IN  /\ M # {}
           /\ FirstIn(M) = 2
           /\ 4 \in M
    /\ \A i \in DOMAIN evals : evals[i].level # 4

\* C3: when the first matching level is a < 4, level a + 1 is evaluated exactly
\* once, as the refinement; the final line sets are those of a + 1 if it
\* matches and those of a otherwise; success is true either way; no level
\* above a + 1 is evaluated; when a = 4 there is no refinement.
C3_OneStepRefinement ==
    pc \in {"post", "done"} =>
        LET R == LevelResults
            M == MatchingIn(R)
            f == FirstIn(M)
        IN  M # {} =>
            /\ is_match
            /\ pc = "done" => result.success
            /\ \A i \in DOMAIN evals : evals[i].level <= f + 1
            /\ f < NumLevels - 1 =>
                  /\ Cardinality(RefineEvals) = 1
                  /\ \A i \in RefineEvals : evals[i].level = f + 1 /\ i = Len(evals)
                  /\ Cardinality({i \in DOMAIN evals : evals[i].level = f + 1}) = 1
                  /\ lines = IF f + 1 \in M THEN LinesIn(R, f + 1) ELSE LinesIn(R, f)
            /\ f = NumLevels - 1 =>
                  /\ RefineEvals = {}
                  /\ lines = LinesIn(R, f)

C3_Witness ==
    /\ pc = "done"
    /\ result.success
    /\ LET R == LevelResults
           M == MatchingIn(R)
       IN  /\ M # {}
           /\ FirstIn(M) < NumLevels - 1
           /\ FirstIn(M) + 1 \in M
           /\ LinesIn(R, FirstIn(M) + 1) # LinesIn(R, FirstIn(M))
           /\ lines = LinesIn(R, FirstIn(M) + 1)

\* C4: get_chess_lines reports a match only if both line sets have exactly 7
\* elements and pass check_match; so the line sets that reach the cropping
\* step have exactly 7 ascending positions per axis.
C4_MatchedHasSevenLines ==
    Searching =>
        /\ LET R == LevelResults
           IN  \A l \in Levels :
                  R[l].is_match =>
                      /\ Len(R[l].lines_x) = 7
                      /\ Len(R[l].lines_y) = 7
                      /\ check_match(R[l].lines_x)
                      /\ check_match(R[l].lines_y)
        /\ (pc \in {"post", "done"} /\ is_match) =>
              /\ Len(lines.x) = 7 /\ IsAscending(lines.x) /\ check_match(lines.x)
              /\ Len(lines.y) = 7 /\ IsAscending(lines.y) /\ check_match(lines.y)

C4_Witness ==
    /\ pc = "post"
    /\ is_match
    /\ RefineEvals # {}
    /\ peaks[a + 1].x = PeaksGap(working.img.w)
    /\ lines.x # peaks[a + 1].x
    /\ Len(lines.x) = 7

\* C7: every bounding box detect_board returns, on success and on failure,
\* satisfies 0 <= y0 < y1 <= H and 0 <= x0 < x1 <= W for the H x W input image.
C7_BBoxInsideImage ==
    pc = "done" =>
        /\ 0 <= result.bbox[1] /\ result.bbox[1] < result.bbox[2]
        /\ result.bbox[2] <= image.h
        /\ 0 <= result.bbox[3] /\ result.bbox[3] < result.bbox[4]
        /\ result.bbox[4] <= image.w

C7_Witness ==
    /\ pc = "done"
    /\ result.success
    /\ rough.found
    /\ working.x_off > 0
    /\ lines.x[1] - StepOf(lines.x) < 0
    /\ lines.x[7] + StepOf(lines.x) > working.img.w
    /\ result.bbox[3] = working.x_off
    /\ result.bbox[4] < image.w

\* the integers next to the mean of the 6 differences of the 7 lines l
NearMean(l) == ((l[7] - l[1]) \div 6)..((l[7] - l[1]) \div 6 + 1)

\* the integer nearest to the mean of the 6 differences of the 7 lines l
IsRoundedMeanStep(step, l) == 2 * Abs(6 * step - (l[7] - l[1])) <= 6

\* C8: on success each axis's step is the rounded mean of the 6 differences of
\* its matched lines L, the crop interval is [max(0, L[0] - step),
\* min(dim, L[6] + step)], the cropped image is the working image restricted
\* to the two intervals and the bounding box is the intervals shifted by the
\* rough-crop offset.
C8_CropFromLines ==
    (pc = "done" /\ result.success) =>
        \E stepx \in NearMean(lines.x), stepy \in NearMean(lines.y) :
            /\ IsRoundedMeanStep(stepx, lines.x)
            /\ IsRoundedMeanStep(stepy, lines.y)
            /\ LET x0 == Max(0, lines.x[1] - stepx)
                   x1 == Min(working.img.w, lines.x[7] + stepx)
                   y0 == Max(0, lines.y[1] - stepy)
                   y1 == Min(working.img.h, lines.y[7] + stepy)
               IN  /\ result.cropped = [buf |-> working.img.buf,
                                        oy |-> working.img.oy + y0,
                                        ox |-> working.img.ox + x0,
                                        h |-> y1 - y0, w |-> x1 - x0]
                   /\ result.bbox = <<y0 + ExpectedOffset.y, y1 + ExpectedOffset.y,
                                      x0 + ExpectedOffset.x, x1 + ExpectedOffset.x>>

C8_Witness ==
    /\ pc = "done"
    /\ result.success
    /\ rough.found
    /\ working.x_off > 0
    /\ (lines.x[7] - lines.x[1]) % 6 > 3
    /\ lines.x[1] - StepOf(lines.x) > 0
    /\ lines.x[7] + StepOf(lines.x) < working.img.w
    /\ result.cropped.w < working.img.w

(***************************************************************************)
(* Properties of rough_crop_board.                                         *)
(***************************************************************************)
\* the contours a strategy examines: its 20 largest
Examined(cnts) == {cnts[i] : i \in 1..Min(Len(cnts), TopContours)}

AllExamined == Examined(contours.ext) \cup Examined(contours.tree) \cup Examined(contours.raw)

AspectInRange(rect) == 2 * rect.bw >= rect.bh /\ rect.bw <= 2 * rect.bh

\* the bounding rectangle's area exceeds min_area_frac of the image area
AreaExceeds(rect) == 100 * rect.bw * rect.bh > MinAreaPct * image.h * image.w

\* C9: rough_crop_board returns found = false exactly when no strategy has,
\* among its 20 largest contours, one whose bounding rectangle's area exceeds
\* min_area_frac of the image area and whose aspect ratio lies in [0.5, 2.0];
\* then the returned region is the input image and the offset is (0, 0).
C9_FoundIffAreaExceeds ==
    pc = "rough" =>
        /\ rough.found = FALSE <=>
              ~\E rect \in AllExamined : AreaExceeds(rect) /\ AspectInRange(rect)
        /\ rough.found = FALSE =>
              rough.img = image /\ rough.off = [y |-> 0, x |-> 0]

\* C10: the rectangle rough_crop_board pads and crops has the minimum score
\* among the eligible rectangles examined by the three strategies, also when
\* only the raw-edges strategy produced it.
C10_MinimumScoreWins ==
    (pc = "rough" /\ rough.found) =>
        LET A == image.h * image.w
            best == rough.best
            pad_x == (PaddingPct * best.bw) \div 100
            pad_y == (PaddingPct * best.bh) \div 100
        IN  /\ best \in AllExamined
            /\ Eligible(best, A)
            /\ \A rect \in AllExamined :
                  Eligible(rect, A) =>
                      ~FracLess(ScoreBoardCandidate(rect.bw, rect.bh, A),
                                ScoreBoardCandidate(best.bw, best.bh, A))
            /\ rough.off = [y |-> Max(0, best.by - pad_y), x |-> Max(0, best.bx - pad_x)]
            /\ rough.img.h = Min(image.h, best.by + best.bh + pad_y) - rough.off.y
            /\ rough.img.w = Min(image.w, best.bx + best.bw + pad_x) - rough.off.x

C10_Witness ==
    /\ pc = "rough"
    /\ rough.found
    /\ rough.best \in Examined(contours.raw)
    /\ rough.best \notin Examined(contours.ext) \cup Examined(contours.tree)
    /\ \E rect \in Examined(contours.ext) : Eligible(rect, image.h * image.w)

(***************************************************************************)
(* Properties of the line-set resolver.                                    *)
(***************************************************************************)
\* C5: in every 7-element ascending line set that check_match accepts, each
\* difference deviates from the running average of the differences before it
\* in its run by at most max(5, avg * 0.06).
C5_WithinRunningAverage ==
    (lpc = "done" /\ Len(cand) = 7 /\ lres.cm) =>
        \A i \in 2..6 :
            LET n == i - 1
                sum == cand[i] - cand[1]
                d == cand[i + 1] - cand[i]
            IN  100 * Abs(n * d - sum) <= Max(100 * MinTol * n, TolPct * sum)

(***************************************************************************)
(* fill_missing_lines on the synthetic sequences with differences          *)
(* d, d, d, 2d, d.                                                         *)
(***************************************************************************)
RepairStarts == {11, 12, 25}

SingleGap(s, d) == <<s, s + d, s + 2 * d, s + 3 * d, s + 5 * d, s + 6 * d>>

RInit ==
    /\ DetectIdle
    /\ CallIdle
    /\ AppIdle
    /\ SkelIdle
    /\ lpc = "build"
    /\ cand \in {SingleGap(s, d) : s \in RepairStarts, d \in 1..MaxStep}
    /\ cdim = 0
    /\ lres = NoLres

RNext == ResolveLines

SpecRepair == RInit /\ [][RNext]_vars

\* C6: for a 6-position sequence strictly inside the margins with differences
\* d, d, d, 2d, d, fill_missing_lines returns the 6 positions plus one, equal
\* to the position before the double gap plus d (the median step), and
\* check_match accepts the 7 positions, whose 6 differences all equal d.
C6_SingleGapRepaired ==
    (lpc = "done" /\ cand[1] > Margin /\ cand[6] < cdim - Margin) =>
        LET d == cand[2] - cand[1]
        IN  /\ Len(lres.filled) = 7
            /\ lres.filled = SubSeq(cand, 1, 4) \o <<cand[4] + d>> \o SubSeq(cand, 5, 6)
            /\ \A i \in 1..6 : lres.filled[i + 1] - lres.filled[i] = d
            /\ check_match(lres.filled)

C6_Witness ==
    /\ lpc = "done"
    /\ cand[1] > Margin
    /\ cand[6] < cdim - Margin
    /\ cand[2] - cand[1] > 1
    /\ Len(lres.filled) = 7
    /\ lres.filled[5] = cand[4] + (cand[2] - cand[1])

(***************************************************************************)
(* Pixel buffers whose library results are known: the contours of the edge *)
(* maps and, per threshold level, the kind of peaks of the two signals.    *)
(***************************************************************************)
SampleContours ==
    {NoContours,
     [ext |-> <<RectSquare>>, tree |-> <<RectSquare>>, raw |-> <<>>],
     [ext |-> <<RectEdge>>, tree |-> <<RectEdge, RectTiny>>, raw |-> <<RectFull>>]}

\* grid, lines up to the image border, a grid lacking a line, no grid,
\* all-zero signals
SampleKinds == {1, 2, 3, 6, 7}

LibSamples ==
    {[known |-> TRUE, contours |-> c, levels |-> f] :
        c \in SampleContours, f \in [Levels -> SampleKinds]}

\* the library's results on the input buffer are one of the samples
KnownInput == {[b \in BufNames |-> IF b = "input" THEN l ELSE UnknownLib] : l \in LibSamples}

(***************************************************************************)
(* The /predict and /predict-base64 handlers (webapp/backend/app.py), from *)
(* the request to the response, with detect_board run in between.          *)
(***************************************************************************)
Handlers == {"predict", "predict_base64"}

\* what the handler's checks can find; /predict has no 'image' field and no
\* base64 text to decode
Requests(h) ==
    {r \in [model_loaded : BOOLEAN, has_image : BOOLEAN, b64_ok : BOOLEAN,
            too_large : BOOLEAN, allowed : BOOLEAN, decodable : BOOLEAN] :
        h = "predict" => r.has_image /\ r.b64_ok}

CouldNotDetect ==
    "Could not detect chessboard in image. Make sure the board is clearly visible."

\* the checks of a handler before detect_board, in the handler's order: the
\* error response, or NoResponse when the image is decoded
RequestError(h, r) ==
    IF ~r.model_loaded THEN [status |-> 503, detail |-> "Model not loaded"]
    ELSE IF h = "predict_base64" /\ ~r.has_image
         THEN [status |-> 400, detail |-> "Missing 'image' field"]
    ELSE IF h = "predict_base64" /\ ~r.b64_ok
         THEN [status |-> 500, detail |-> "Failed to process image. Please try a different file."]
    ELSE IF r.too_large
         THEN [status |-> 413, detail |-> "File too large. Maximum size is 10 MB."]
    ELSE IF ~r.allowed
         THEN [status |-> 400,
               detail |-> "Unsupported image format. Please upload a PNG, JPEG, or WEBP image."]
    ELSE IF ~r.decodable
         THEN [status |-> 500, detail |-> "Failed to process image. Please try a different file."]
    ELSE NoResponse

AInit ==
    /\ DetectIdle
    /\ lib = NoLib
    /\ calls = 0
    /\ first = NoFirst
    /\ inter = NoInter
    /\ hpc = "received"
    /\ handler \in Handlers
    /\ request \in Requests(handler)
    /\ response = NoResponse
    /\ fen_calls = <<>>
    /\ SkelIdle
    /\ LinesIdle

\* a check of the handler fails: the HTTPException is the response
Reject ==
    /\ hpc = "received"
    /\ RequestError(handler, request) # NoResponse
    /\ response' = RequestError(handler, request)
    /\ hpc' = "responded"
    /\ UNCHANGED <<handler, request, fen_calls>>
    /\ UNCHANGED <<detectVars, callVars, skelVars, lineVars>>

\* the image is decoded, converted to RGB and passed to detect_board
Decode ==
    /\ hpc = "received"
    /\ RequestError(handler, request) = NoResponse
    /\ image' \in Images
    /\ chan' = RGB
    /\ lib' \in KnownInput
    /\ pc' = "start"
    /\ calls' = calls + 1
    /\ hpc' = "detecting"
    /\ UNCHANGED <<contours, rough, working, peaks, a, lines, is_match, evals, levelres, result>>
    /\ UNCHANGED <<first, inter>>
    /\ UNCHANGED <<handler, request, response, fen_calls>>
    /\ UNCHANGED <<skelVars, lineVars>>

\* `if not success: raise HTTPException(422)`
Unprocessable ==
    /\ hpc = "detecting"
    /\ pc = "done"
    /\ ~result.success
    /\ response' = [status |-> 422, detail |-> CouldNotDetect]
    /\ hpc' = "responded"
    /\ UNCHANGED <<handler, request, fen_calls>>
    /\ UNCHANGED <<detectVars, callVars, skelVars, lineVars>>

\* a handler that classifies whatever detect_board returned
PredictFenUnchecked ==
    /\ hpc = "detecting"
    /\ pc = "done"
    /\ fen_calls' = Append(fen_calls, [image |-> result.cropped])
    /\ \E raised \in BOOLEAN :
           IF raised
           THEN /\ response' = [status |-> 500,
                                detail |-> "Failed to process image. Please try a different file."]
                /\ hpc' = "responded"
           ELSE /\ response' = response
                /\ hpc' = "predicted"
    /\ UNCHANGED <<handler, request>>
    /\ UNCHANGED <<detectVars, callVars, skelVars, lineVars>>

\* predict_fen(model, cropped): it returns, or raises and the handler answers 500
PredictFen ==
    /\ hpc = "detecting"
    /\ pc = "done"
    /\ result.success
    /\ fen_calls' = Append(fen_calls, [image |-> result.cropped])
    /\ \E raised \in BOOLEAN :
           IF raised
           THEN /\ response' = [status |-> 500,
                                detail |-> "Failed to process image. Please try a different file."]
                /\ hpc' = "responded"
           ELSE /\ response' = response
                /\ hpc' = "predicted"
    /\ UNCHANGED <<handler, request>>
    /\ UNCHANGED <<detectVars, callVars, skelVars, lineVars>>

\* the annotated image and the response with the FEN
Respond ==
    /\ hpc = "predicted"
    /\ response' = [status |-> 200, detail |-> "fen"]
    /\ hpc' = "responded"
    /\ UNCHANGED <<handler, request, fen_calls>>
    /\ UNCHANGED <<detectVars, callVars, skelVars, lineVars>>

ANext ==
    \/ Reject
    \/ Decode
    \/ Next
    \/ Unprocessable
    \/ PredictFen
    \/ Respond

SpecApp == AInit /\ [][ANext]_vars

\* C11: in both handlers predict_fen is called only after detect_board has
\* returned success = true for the request, once and on the image it returned;
\* when detect_board returns success = false the request ends with the 422
\* "could not detect chessboard" error and predict_fen is never called.
C11_ClassifyOnlyAfterSuccess ==
    /\ fen_calls # <<>> =>
          /\ pc = "done"
          /\ result.success
          /\ fen_calls = <<[image |-> result.cropped]>>
    /\ (pc = "done" /\ ~result.success) =>
          /\ fen_calls = <<>>
          /\ hpc \in {"detecting", "responded"}
          /\ hpc = "responded" =>
                response = [status |-> 422, detail |-> CouldNotDetect]

C11_Witness ==
    /\ handler = "predict_base64"
    /\ hpc = "responded"
    /\ pc = "done"
    /\ ~result.success
    /\ rough.found
    /\ response.status = 422
    /\ fen_calls = <<>>

(***************************************************************************)
(* detect_board_with_intermediates, run on the input of a finished         *)
(* detect_board call: the library computes the same contours and the same  *)
(* signals from the same pixels.                                           *)
(***************************************************************************)
\* working_image, y_off, x_off from rough_crop_board's return value
WorkingOf(img, rgh) ==
    IF rgh.found
    THEN [img |-> rgh.img, y_off |-> rgh.off.y, x_off |-> rgh.off.x]
    ELSE [img |-> img, y_off |-> 0, x_off |-> 0]

\* a threshold loop that breaks at the first match without the refinement
RECURSIVE IntermediatesLoopNoRefine(_, _)
IntermediatesLoopNoRefine(res, lvl) ==
    IF res[lvl].is_match \/ lvl + 1 >= NumLevels THEN res[lvl]
    ELSE IntermediatesLoopNoRefine(res, lvl + 1)

\* the threshold loop of detect_board_with_intermediates from level lvl on,
\* res[l] being what get_chess_lines returns at level l: lines_x, lines_y,
\* is_match when the loop is left
RECURSIVE IntermediatesLoop(_, _)
IntermediatesLoop(res, lvl) ==
    IF res[lvl].is_match
    THEN IF lvl < NumLevels - 1 /\ res[lvl + 1].is_match
         THEN [lines_x |-> res[lvl + 1].lines_x, lines_y |-> res[lvl + 1].lines_y,
               is_match |-> res[lvl].is_match]
         ELSE res[lvl]
    ELSE IF lvl + 1 < NumLevels THEN IntermediatesLoop(res, lvl + 1)
         ELSE res[lvl]

\* [l[0] - step] + l + [l[-1] + step]
AllLines(l) == <<l[1] - StepOf(l)>> \o l \o <<l[Len(l)] + StepOf(l)>>

\* detect_board_with_intermediates around its threshold loop: wk is the
\* working image with its offset, found what the loop leaves in lines_x,
\* lines_y, is_match
WithIntermediates(img, rgh, wk, found) ==
    LET h == wk.img.h
        w == wk.img.w
        base == [original |-> img, working_image |-> wk.img,
                 crop_bbox |-> <<wk.y_off, wk.x_off, h, w>>, crop_found |-> rgh.found,
                 lines_x |-> found.lines_x, lines_y |-> found.lines_y,
                 all_x |-> <<>>, all_y |-> <<>>]
    IN  IF ~found.is_match
        THEN [cropped |-> wk.img,
              bbox |-> <<wk.y_off, h + wk.y_off, wk.x_off, w + wk.x_off>>,
              success |-> FALSE, intermediates |-> base]
        ELSE LET all_x == AllLines(found.lines_x)
                 all_y == AllLines(found.lines_y)
                 x0 == Max(0, all_x[1])
                 x1 == Min(w, all_x[Len(all_x)])
                 y0 == Max(0, all_y[1])
                 y1 == Min(h, all_y[Len(all_y)])
             IN  [cropped |-> CropImage(wk.img, y0, y1, x0, x1),
                  bbox |-> <<y0 + wk.y_off, y1 + wk.y_off, x0 + wk.x_off, x1 + wk.x_off>>,
                  success |-> TRUE,
                  intermediates |-> [base EXCEPT !.all_x = all_x, !.all_y = all_y]]

TInit ==
    /\ pc = "start"
    /\ image \in Images
    /\ chan = RGB
    /\ contours = NoContours
    /\ rough = NoRough
    /\ working = NoWorking
    /\ peaks = NoPeaks
    /\ a = 0
    /\ lines = NoLines
    /\ is_match = FALSE
    /\ evals = <<>>
    /\ levelres = NoLevelRes
    /\ result = NoResult
    /\ lib \in KnownInput
    /\ calls = 1
    /\ first = NoFirst
    /\ inter = NoInter
    /\ AppIdle
    /\ SkelIdle
    /\ LinesIdle

\* detect_board_with_intermediates(image) on the image detect_board was given
DetectWithIntermediates ==
    /\ pc = "done"
    /\ inter = NoInter
    /\ CvtColorAccepts(DropAlpha(chan))
    /\ \E cnt \in ContoursOf(image) :
       \E rgh \in {rough_crop_board(image, cnt)} :
       \E wk \in {WorkingOf(image, rgh)} :
       \E pk \in PeaksOf(wk.img) :
       \E res \in {[l \in Levels |-> get_chess_lines(pk[l].x, pk[l].y, wk.img)]} :
       \E found \in {IntermediatesLoop(res, 1)} :
           inter' = WithIntermediates(image, rgh, wk, found)
    /\ UNCHANGED <<lib, calls, first>>
    /\ UNCHANGED <<detectVars, appVars, skelVars, lineVars>>

TNext ==
    \/ Next
    \/ DetectWithIntermediates

SpecTwin == TInit /\ [][TNext]_vars

\* C12: on the same input detect_board_with_intermediates returns the cropped
\* image, the bounding box and the success flag detect_board returns, after
\* the same rough crop and with the same final line sets.
C12_SameResultWithIntermediates ==
    (pc = "done" /\ inter # NoInter) =>
        /\ inter.cropped = result.cropped
        /\ inter.bbox = result.bbox
        /\ inter.success = result.success
        /\ inter.intermediates.crop_found = rough.found
        /\ inter.intermediates.working_image = working.img
        /\ inter.intermediates.lines_x = lines.x
        /\ inter.intermediates.lines_y = lines.y

C12_Witness ==
    /\ pc = "done"
    /\ inter # NoInter
    /\ inter.success
    /\ rough.found
    /\ RefineEvals # {}
    /\ LinesIn(levelres, a + 1) # LinesIn(levelres, a)
    /\ inter.intermediates.lines_x = levelres[a + 1].lines_x
    /\ inter.cropped.w < working.img.w

(***************************************************************************)
(* detect_board on arrays of 1, 3 and 4 channels: a 400 x 400 image, the   *)
(* single channel either as a 2-D array or as a third dimension of size 1. *)
(***************************************************************************)
Image400 == [buf |-> "input", oy |-> 0, ox |-> 0, h |-> 400, w |-> 400]

Channels ==
    {[ndim |-> 2, ch |-> 1], [ndim |-> 3, ch |-> 1], [ndim |-> 3, ch |-> 3],
     [ndim |-> 3, ch |-> 4]}

CInit ==
    /\ pc = "start"
    /\ image = Image400
    /\ chan \in Channels
    /\ contours = NoContours
    /\ rough = NoRough
    /\ working = NoWorking
    /\ peaks = NoPeaks
    /\ a = 0
    /\ lines = NoLines
    /\ is_match = FALSE
    /\ evals = <<>>
    /\ levelres = NoLevelRes
    /\ result = NoResult
    /\ lib \in KnownInput
    /\ calls = 1
    /\ first = NoFirst
    /\ inter = NoInter
    /\ AppIdle
    /\ SkelIdle
    /\ LinesIdle

\* rough_crop_board: cv2.cvtColor(image, COLOR_RGB2GRAY) of a 3-D array raises
\* cv2.error when the array has one channel
RoughCropRaises ==
    /\ pc = "start"
    /\ DropAlpha(chan).ndim = 3
    /\ ~CvtColorAccepts(DropAlpha(chan))
    /\ chan' = DropAlpha(chan)
    /\ pc' = "raised"
    /\ UNCHANGED <<image, contours, rough, working, peaks, a, lines, is_match, evals,
                   levelres, result>>
    /\ UNCHANGED outerVars

\* detect_board: cv2.cvtColor(working_image, COLOR_RGB2GRAY) raises cv2.error
\* when the working image is a 2-D array
GrayscaleRaises ==
    /\ pc = "working"
    /\ ~CvtColorAccepts(chan)
    /\ pc' = "raised"
    /\ UNCHANGED <<image, contours, rough, working, peaks, a, lines, is_match, evals,
                   levelres, result>>
    /\ UNCHANGED <<chan, outerVars>>

CNext ==
    \/ Next
    \/ RoughCropRaises
    \/ GrayscaleRaises

SpecChannels == CInit /\ [][CNext]_vars

Finished == pc \in {"done", "raised"}

\* C13: detect_board processes the 400 x 400 single-channel image with grid
\* lines at 50, 100, ..., 350 on both axes to success = true, with both line
\* sets within 1 px of the grid and the bounding box (0, 400, 0, 400).
C13_SyntheticGridDetected ==
    (Finished /\ image = Image400 /\ chan = [ndim |-> 2, ch |-> 1]) =>
        /\ pc = "done"
        /\ result.success
        /\ Len(lines.x) = 7
        /\ Len(lines.y) = 7
        /\ \A k \in 1..7 : Abs(lines.x[k] - 50 * k) <= 1 /\ Abs(lines.y[k] - 50 * k) <= 1
        /\ result.bbox = <<0, 400, 0, 400>>

\* C14: for every input of 1, 3 or 4 channels detect_board returns and never
\* raises; when no level matches on both axes it returns success = false.
C14_NeverRaises ==
    Finished =>
        /\ pc = "done"
        /\ MatchingIn(levelres) = {} => ~result.success

(***************************************************************************)
(* Buffers of the images detect_board and rough_crop_board return.         *)
(***************************************************************************)
\* C15: the region rough_crop_board returns and the image detect_board
\* returns, on success and on failure, are freshly allocated: neither shares
\* the pixel buffer of the input image.
C15_OutputsFreshlyAllocated ==
    /\ pc = "rough" => rough.img.buf # image.buf
    /\ pc = "done" => result.cropped.buf # image.buf

(***************************************************************************)
(* Successive detect_board invocations, on the input image and on another  *)
(* image. A new invocation finds in its frame whatever the previous one    *)
(* left there; the library computes the same from the same pixels.         *)
(***************************************************************************)
MaxCalls == 3

OtherImage == [buf |-> "other", oy |-> 0, ox |-> 0, h |-> 200, w |-> 240]

\* the other image: a board inside a square contour, found at level 3
OtherLib ==
    [known |-> TRUE,
     contours |-> [ext |-> <<RectSquare>>, tree |-> <<RectSquare>>, raw |-> <<>>],
     levels |-> <<7, 7, 3, 1>>]

\* grid, a grid lacking a line, all-zero signals
TwiceKinds == {1, 3, 7}

TwiceLibs ==
    {[b \in BufNames |->
         IF b = "other" THEN OtherLib
         ELSE [known |-> TRUE, contours |-> c, levels |-> f]] :
        c \in SampleContours, f \in [Levels -> TwiceKinds]}

WInit ==
    /\ pc = "start"
    /\ image \in Images
    /\ chan = RGB
    /\ contours = NoContours
    /\ rough = NoRough
    /\ working = NoWorking
    /\ peaks = NoPeaks
    /\ a = 0
    /\ lines = NoLines
    /\ is_match = FALSE
    /\ evals = <<>>
    /\ levelres = NoLevelRes
    /\ result = NoResult
    /\ lib \in TwiceLibs
    /\ calls = 1
    /\ first = NoFirst
    /\ inter = NoInter
    /\ AppIdle
    /\ SkelIdle
    /\ LinesIdle

\* detect_board returns to its caller, who calls it again: no local of the
\* new frame is initialised by the call itself
InvokeAgain ==
    /\ pc = "done"
    /\ calls < MaxCalls
    /\ first' = IF first[image.buf] = NoResult
                THEN [first EXCEPT ![image.buf] = result]
                ELSE first
    /\ image' \in Images \cup {OtherImage}
    /\ chan' = RGB
    /\ evals' = <<>>
    /\ calls' = calls + 1
    /\ pc' = "start"
    /\ UNCHANGED <<contours, rough, working, peaks, a, lines, is_match, levelres, result>>
    /\ UNCHANGED <<lib, inter>>
    /\ UNCHANGED <<appVars, skelVars, lineVars>>

WNext ==
    \/ Next
    \/ InvokeAgain

SpecTwice == WInit /\ [][WNext]_vars

\* C16: an invocation of detect_board on pixels it was given before returns
\* the cropped image, bounding box and success flag it returned the first
\* time, whatever invocations came in between and whatever they left behind.
C16_SameInputSameResult ==
    (pc = "done" /\ first[image.buf] # NoResult) => result = first[image.buf]

C16_Witness ==
    /\ pc = "done"
    /\ calls = 3
    /\ image.buf = "input"
    /\ first["input"] # NoResult
    /\ first["other"] # NoResult
    /\ first["other"] # first["input"]
    /\ result.success
    /\ result = first["input"]

(***************************************************************************)
(* skeletonize_1d on signals of at most MaxSig samples with the values     *)
(* 0..MaxVal (only the order of the values matters).                       *)
(***************************************************************************)
MaxSig == 5

MaxVal == 2

Signals == UNION {[1..n -> 0..MaxVal] : n \in 0..MaxSig}

\* a forward pass that keeps a sample equal to its right neighbour
RECURSIVE SkelForwardKeepsEqual(_, _)
SkelForwardKeepsEqual(s, i) ==
    IF i > Len(s) - 1 THEN s
    ELSE SkelForwardKeepsEqual(IF s[i] < s[i + 1] THEN [s EXCEPT ![i] = 0] ELSE s, i + 1)

\* for i in range(len(_arr) - 1): if _arr[i] <= _arr[i + 1]: _arr[i] = 0
\* (i is the 1-based index)
RECURSIVE SkelForward(_, _)
SkelForward(s, i) ==
    IF i > Len(s) - 1 THEN s
    ELSE SkelForward(IF s[i] <= s[i + 1] THEN [s EXCEPT ![i] = 0] ELSE s, i + 1)

\* for i in range(len(_arr) - 1, 0, -1): if _arr[i - 1] > _arr[i]: _arr[i] = 0
RECURSIVE SkelBackward(_, _)
SkelBackward(s, i) ==
    IF i < 2 THEN s
    ELSE SkelBackward(IF s[i - 1] > s[i] THEN [s EXCEPT ![i] = 0] ELSE s, i - 1)

\* the passes run on a copy: arr is the caller's array after the call, ret
\* the array returned
skeletonize_1d(arr) ==
    [arr |-> arr, ret |-> SkelBackward(SkelForward(arr, 1), Len(arr))]

SInit ==
    /\ DetectIdle
    /\ CallIdle
    /\ AppIdle
    /\ LinesIdle
    /\ sig \in Signals
    /\ sig_in = sig
    /\ skel = NoSkel

Skeletonize ==
    /\ skel = NoSkel
    /\ \E r \in {skeletonize_1d(sig)} :
           /\ sig' = r.arr
           /\ skel' = r.ret
    /\ UNCHANGED sig_in
    /\ UNCHANGED <<detectVars, callVars, appVars, lineVars>>

SNext == Skeletonize

SpecSkel == SInit /\ [][SNext]_vars

HasLeft(i) == i > 1

HasRight(i) == i < Len(sig_in)

\* C17 as claimed: the output of skeletonize_1d is nonzero at i only if the
\* input at i is strictly greater than each neighbour that exists; survivors
\* keep their input value and the input array is not modified.
C17_OnlyStrictMaxima ==
    skel # NoSkel =>
        /\ sig = sig_in
        /\ Len(skel) = Len(sig_in)
        /\ \A i \in DOMAIN skel :
              skel[i] # 0 =>
                  /\ skel[i] = sig_in[i]
                  /\ HasLeft(i) => sig_in[i] > sig_in[i - 1]
                  /\ HasRight(i) => sig_in[i] > sig_in[i + 1]

\* C17 as amended: the output of skeletonize_1d is nonzero at i only if the
\* input at i is strictly greater than its right neighbour and at least as
\* large as its left neighbour (each if it exists); survivors keep their
\* input value and the input array is not modified.
C17_DescentAfterNonDescent ==
    skel # NoSkel =>
        /\ sig = sig_in
        /\ Len(skel) = Len(sig_in)
        /\ \A i \in DOMAIN skel :
              skel[i] # 0 =>
                  /\ skel[i] = sig_in[i]
                  /\ HasLeft(i) => sig_in[i] >= sig_in[i - 1]
                  /\ HasRight(i) => sig_in[i] > sig_in[i + 1]

\* the right end of a plateau survives
C17_Witness ==
    /\ skel # NoSkel
    /\ \E i \in DOMAIN skel :
          /\ skel[i] # 0
          /\ HasLeft(i)
          /\ HasRight(i)
          /\ sig_in[i - 1] = sig_in[i]
          /\ sig_in[i] > sig_in[i + 1]

(***************************************************************************)
(* The line-set resolver on grids of every step 1..MaxStep that lack up to *)
(* MaxGaps lines: positions s + d * (m1 + ... + mk) with the multipliers   *)
(* mi in {1, 2}.                                                           *)
(***************************************************************************)
MaxGaps == 2

PatternStarts == {5, 11}

Multipliers(n) ==
    {m \in [1..n -> {1, 2}] : Cardinality({i \in 1..n : m[i] = 2}) <= MaxGaps}

RECURSIVE PrefixSum(_, _)
PrefixSum(m, k) == IF k = 0 THEN 0 ELSE PrefixSum(m, k - 1) + m[k]

GridWithGaps(s, d, m) == [k \in 1..(Len(m) + 1) |-> s + d * PrefixSum(m, k - 1)]

PInit ==
    /\ DetectIdle
    /\ CallIdle
    /\ AppIdle
    /\ SkelIdle
    /\ lpc = "build"
    /\ cand \in {GridWithGaps(s, d, m) :
                    s \in PatternStarts, d \in 1..MaxStep,
                    m \in UNION {Multipliers(n) : n \in (MaxPeaks - 2)..MaxPeaks}}
    /\ cdim = 0
    /\ lres = NoLres

PNext == ResolveLines

SpecPatterns == PInit /\ [][PNext]_vars

\* the candidates prune_lines and fill_missing_lines keep
Kept == MarginFilter(cand, cdim)

IsRunOf(run, list) ==
    \E k \in 1..(Len(list) - Len(run) + 1) : run = SubSeq(list, k, k + Len(run) - 1)

\* C18: prune_lines discards every position within margin of either end;
\* with fewer than 7 positions left it returns them unchanged; otherwise it
\* returns the whole filtered list or a run of it, and a returned run always
\* has exactly 7 positions contiguous in the filtered list.
C18_RunOfSevenPositions ==
    lpc = "done" =>
        /\ \A i \in DOMAIN lres.pruned :
              lres.pruned[i] > Margin /\ lres.pruned[i] < cdim - Margin
        /\ Len(Kept) < 7 => lres.pruned = Kept
        /\ (Len(Kept) >= 7 /\ lres.pruned # Kept) =>
              /\ Len(lres.pruned) = 7
              /\ IsRunOf(lres.pruned, Kept)

\* candidate lists for the other axis: none, a grid lacking a line, a full grid
OtherAxes ==
    {<<>>, SingleGap(Margin + 1, MaxStep),
     GridWithGaps(Margin + 1, MaxStep, [i \in 1..(NumLines - 1) |-> 1])}

OtherDim == 2 * (Margin + 1) + (NumLines - 1) * MaxStep

\* C19: an axis whose pruned set has exactly 7 positions and passes
\* check_match is returned as pruned, whatever the candidates of the other
\* axis are; an axis's final line set differs from its pruned set only if
\* fill_missing_lines inserted a position into the raw candidates, and then
\* it is the re-pruned repaired list.
C19_RepairOnlyWhenNeeded ==
    lpc = "done" =>
        /\ (Len(lres.pruned) = 7 /\ check_match(lres.pruned)) =>
              /\ lres.resolved = lres.pruned
              /\ \A other \in OtherAxes :
                    /\ get_chess_lines(cand, other, [h |-> OtherDim, w |-> cdim]).lines_x
                           = lres.pruned
                    /\ get_chess_lines(other, cand, [h |-> cdim, w |-> OtherDim]).lines_y
                           = lres.pruned
        /\ lres.resolved # lres.pruned =>
              /\ Len(lres.pruned) # 7 \/ ~check_match(lres.pruned)
              /\ Len(lres.filled) = Len(Kept) + 1
              /\ \E i \in DOMAIN lres.filled :
                    Kept = SubSeq(lres.filled, 1, i - 1)
                           \o SubSeq(lres.filled, i + 1, Len(lres.filled))
              /\ lres.resolved = prune_lines(lres.filled, cdim)

C19_Witness ==
    /\ lpc = "done"
    /\ Len(lres.pruned) = 7
    /\ ~check_match(lres.pruned)
    /\ lres.resolved # lres.pruned
    /\ Len(lres.resolved) = 7
    /\ check_match(lres.resolved)

(***************************************************************************)
(* detect_board is straight-line sequential code: a step that can be taken *)
(* is taken.                                                               *)
(***************************************************************************)
SpecLive == Init /\ [][Next]_vars /\ WF_vars(Next)

\* the levels get_chess_lines was called with, in call order
EvaluatedLevels == [i \in DOMAIN evals |-> evals[i].level]

SearchBounded ==
    /\ Len(evals) <= NumLevels - 1
    /\ \A i \in DOMAIN evals : EvaluatedLevels[i] \in Levels
    /\ evals # <<>> => EvaluatedLevels[1] = 1
    /\ \A i, j \in DOMAIN evals : i < j => EvaluatedLevels[i] < EvaluatedLevels[j]

\* C20: every invocation of detect_board returns, and at every point of it
\* the evaluated threshold levels start at 1, strictly increase (so none is
\* evaluated twice), never exceed 4, and number at most 4.
C20_SearchTerminates == <>(pc = "done") /\ []SearchBounded

C20_Witness ==
    /\ pc = "done"
    /\ EvaluatedLevels = <<1, 2, 3, 4>>

\* the two line sets one get_chess_lines call returns at level l
LinesOfLevel(l) == [x |-> levelres[l].lines_x, y |-> levelres[l].lines_y]

\* the box the cropper derives from a pair of line sets
BoxOfLines(l) ==
    LET ix == CropInterval(l.x, working.img.w)
        iy == CropInterval(l.y, working.img.h)
    IN  <<iy.lo + working.y_off, iy.hi + working.y_off,
          ix.lo + working.x_off, ix.hi + working.x_off>>

\* C21: from the first evaluation on, the x and y line sets detect_board holds
\* are the pair one get_chess_lines call returned at one evaluated level
\* (both empty before the first call), and the box of a successful result is
\* cut from such a pair.
C21_AxesFromOneLevel ==
    /\ pc \in {"search", "refine", "post", "done"} =>
          IF evals = <<>> THEN lines = NoLines
          ELSE \E i \in DOMAIN evals : lines = LinesOfLevel(evals[i].level)
    /\ (pc = "done" /\ result.success) =>
          \E i \in DOMAIN evals :
              /\ evals[i].match
              /\ result.bbox = BoxOfLines(LinesOfLevel(evals[i].level))

C21_Witness ==
    /\ pc = "done"
    /\ result.success
    /\ Len(evals) >= 2
    /\ evals[Len(evals)].kind = "refine"
    /\ evals[Len(evals)].match
    /\ lines = LinesOfLevel(a + 1)
    /\ LinesOfLevel(a + 1).x # LinesOfLevel(a).x
    /\ LinesOfLevel(a + 1).y # LinesOfLevel(a).y

\* C22: whenever prune_lines returns a run it selected instead of the whole
\* filtered list, check_match accepts that run.
C22_PrunedRunMatches ==
    (lpc = "done" /\ lres.pruned # Kept) => check_match(lres.pruned)

\* list with its i-th position taken out
Without(list, i) == SubSeq(list, 1, i - 1) \o SubSeq(list, i + 1, Len(list))

\* C23: for strictly ascending candidates fill_missing_lines returns the
\* margin-filtered list, or that list with exactly one position inserted
\* strictly between two neighbouring filtered positions; either way the
\* result is strictly ascending.
C23_AtMostOneInsertion ==
    (lpc = "done" /\ IsAscending(cand)) =>
        /\ \/ lres.filled = Kept
           \/ /\ Len(lres.filled) = Len(Kept) + 1
              /\ \E i \in 2..(Len(lres.filled) - 1) :
                    /\ Without(lres.filled, i) = Kept
                    /\ lres.filled[i - 1] < lres.filled[i]
                    /\ lres.filled[i] < lres.filled[i + 1]
        /\ IsAscending(lres.filled)

\* two double-width gaps, one of them filled
C23_Witness ==
    /\ lpc = "done"
    /\ IsAscending(cand)
    /\ Len(lres.filled) = Len(Kept) + 1
    /\ Cardinality({i \in 1..(Len(Kept) - 1) :
                       Kept[i + 1] - Kept[i] = 2 * (Kept[2] - Kept[1])}) = 2

====
